---- MODULE Spec2Model ----
(***************************************************************************)
(* Model of group-shuffle-gpt.py: the group-size planner, the conflict     *)
(* scorer, the bounded random search of assign_groups, the group namer     *)
(* and the pair history built from the roster table.                       *)
(***************************************************************************)
EXTENDS Integers, Sequences, FiniteSets, TLC

(* ---------------------------- bounds ---------------------------------- *)
MaxN == 6
MaxAttempts == 3
MaxShuffled == 12
MaxPlanN == 60
MaxNamedStudents == 38
NumRoster == 3
NumCols == 2

(* ------------------------ program constants --------------------------- *)
GROUP_NAMES == <<"cedar", "cypress", "spruce", "pine", "fir", "oak",
                 "maple", "birch", "ash", "elm", "chestnut">>

INF == 1000000

VARIABLES students, max_attempts, past_pairings, ideal_sizes,
          best_assignment, best_score, attempt, candidates, pc, result,
          num_students, sizes, assignment, name_mapping, df, pairings

vars == <<students, max_attempts, past_pairings, ideal_sizes,
          best_assignment, best_score, attempt, candidates, pc, result,
          num_students, sizes, assignment, name_mapping, df, pairings>>

(* ------------------------------ helpers -------------------------------- *)
None == <<>>

Some(v) == <<v>>

Range(s) == {s[i] : i \in DOMAIN s}

RECURSIVE Rep(_, _)
Rep(v, k) == IF k <= 0 THEN <<>> ELSE <<v>> \o Rep(v, k - 1)

RECURSIVE SumSeq(_)
SumSeq(s) == IF s = <<>> THEN 0 ELSE Head(s) + SumSeq(Tail(s))

PairsOf(S) == {{a, b} : a, b \in S} \ {{a} : a \in S}

(* dict.get(key, 0) *)
Get(d, k) == IF k \in DOMAIN d THEN d[k] ELSE 0

(* ---------------------- initial_group_structure ----------------------- *)
RECURSIVE PlanFrom(_, _)
PlanFrom(n, y) ==
    IF y > n \div 4 THEN <<>>
    ELSE LET remaining == n - 4 * y
         IN  IF remaining % 3 = 0
             THEN Rep(3, remaining \div 3) \o Rep(4, y)
             ELSE PlanFrom(n, y + 1)

initial_group_structure_doc(n) ==
    IF n \in {1, 2, 4, 5} THEN <<>> ELSE PlanFrom(n, 0)

initial_group_structure(n) == PlanFrom(n, 0)

(* ---------------------- grouping_conflict_score ----------------------- *)
RECURSIVE ScoreFrom(_, _, _, _)
ScoreFrom(group, pp, i, j) ==
    IF i >= Len(group) THEN 0
    ELSE IF j > Len(group) THEN ScoreFrom(group, pp, i + 1, i + 2)
    ELSE Get(pp, {group[i], group[j]}) + ScoreFrom(group, pp, i, j + 1)

grouping_conflict_score_adjacent(group, pp) ==
    SumSeq([i \in 1..(Len(group) - 1) |-> Get(pp, {group[i], group[i + 1]})])

grouping_conflict_score(group, pp) == ScoreFrom(group, pp, 1, 2)

TotalScore(asg, pp) ==
    SumSeq([i \in 1..Len(asg) |-> grouping_conflict_score(asg[i], pp)])

(* ------------------------- assign_groups ------------------------------ *)
RECURSIVE FormGroupsFrom(_, _, _, _)
FormGroupsFrom(studs, szs, k, start) ==
    IF k > Len(szs) THEN [assignment |-> <<>>, valid |-> TRUE]
    ELSE IF start + szs[k] <= Len(studs)
         THEN LET rest == FormGroupsFrom(studs, szs, k + 1, start + szs[k])
              IN  [assignment |->
                       <<SubSeq(studs, start + 1, start + szs[k])>>
                           \o rest.assignment,
                   valid |-> rest.valid]
         ELSE [assignment |-> <<>>, valid |-> FALSE]

RECURSIVE FormGroupsOverlap(_, _, _, _)
FormGroupsOverlap(studs, szs, k, start) ==
    IF k > Len(szs) THEN [assignment |-> <<>>, valid |-> TRUE]
    ELSE IF start + szs[k] <= Len(studs)
         THEN LET rest == FormGroupsOverlap(studs, szs, k + 1, start + 1)
              IN  [assignment |->
                       <<SubSeq(studs, start + 1, start + szs[k])>>
                           \o rest.assignment,
                   valid |-> rest.valid]
         ELSE [assignment |-> <<>>, valid |-> FALSE]

FormGroupsShortAdvance(studs, szs) == FormGroupsOverlap(studs, szs, 1, 0)

FormGroups(studs, szs) == FormGroupsFrom(studs, szs, 1, 0)

ImprovesOrTies(total, best) == total <= best

Improves(total, best) == total < best

NeverBreak(score) == FALSE

ShouldBreak(score) == score = 0

LoopContinuesInclusive(k, budget) == k <= budget

LoopContinues(k, budget) == k < budget

Infeasible == [assignment |-> None, score |-> None]

HotPairs == {{1, 2}, {1, 3}}

NoHistory == <<>>

ZeroHistory == [p \in HotPairs |-> 0]

MixedHistory == ({1, 2} :> 1) @@ ({1, 3} :> 2)

WeightChoices == {NoHistory, ZeroHistory, MixedHistory}

AttemptChoices == {0 - 1} \cup 0..MaxAttempts

Init ==
    /\ \E n \in 0..MaxN : students = [i \in 1..n |-> i]
    /\ max_attempts \in AttemptChoices
    /\ Len(students) * max_attempts <= MaxShuffled
    /\ past_pairings \in WeightChoices
    /\ ideal_sizes = <<>>
    /\ best_assignment = None
    /\ best_score = INF
    /\ attempt = 0
    /\ candidates = <<>>
    /\ pc = "entry"
    /\ result = Infeasible
    /\ num_students = 0
    /\ sizes = <<>>
    /\ assignment = <<>>
    /\ name_mapping = <<>>
    /\ df = <<>>
    /\ pairings = <<>>

Others == <<num_students, sizes, assignment, name_mapping, df, pairings>>

(* lines 120-128: plan the sizes, give up when no plan exists *)
Entry ==
    /\ pc = "entry"
    /\ LET plan == initial_group_structure(Len(students))
       IN  /\ ideal_sizes' = plan
           /\ IF plan = <<>> \/ SumSeq(plan) # Len(students)
              THEN /\ pc' = "done"
                   /\ result' = Infeasible
              ELSE /\ pc' = "loop"
                   /\ UNCHANGED result
    /\ UNCHANGED <<students, max_attempts, past_pairings, best_assignment,
                   best_score, attempt, candidates>>
    /\ UNCHANGED Others

(* lines 131-155: one iteration of the search loop; the return follows    *)
(* when the iteration breaks or was the last one                          *)
Attempt ==
    /\ pc = "loop"
    /\ LoopContinues(attempt, max_attempts)
    /\ \E p \in Permutations(1..Len(students)) :
         LET shuffled == [i \in 1..Len(students) |-> students[p[i]]]
             formed == FormGroups(shuffled, ideal_sizes)
             total == TotalScore(formed.assignment, past_pairings)
             better == formed.valid /\ Improves(total, best_score)
             nbest_a == IF better THEN Some(formed.assignment)
                                  ELSE best_assignment
             nbest_s == IF better THEN total ELSE best_score
             stop == \/ better /\ ShouldBreak(nbest_s)
                     \/ ~LoopContinues(attempt + 1, max_attempts)
         IN  /\ students' = shuffled
             /\ candidates' = IF formed.valid
                              THEN Append(candidates, formed.assignment)
                              ELSE candidates
             /\ best_assignment' = nbest_a
             /\ best_score' = nbest_s
             /\ attempt' = attempt + 1
             /\ IF stop
                THEN /\ pc' = "done"
                     /\ result' = [assignment |-> nbest_a,
                                   score |-> Some(nbest_s)]
                ELSE /\ pc' = "loop"
                     /\ UNCHANGED result
    /\ UNCHANGED <<max_attempts, past_pairings, ideal_sizes>>
    /\ UNCHANGED Others

(* line 155 reached with an empty range(max_attempts) *)
Return ==
    /\ pc = "loop"
    /\ ~LoopContinues(attempt, max_attempts)
    /\ pc' = "done"
    /\ result' = [assignment |-> best_assignment, score |-> Some(best_score)]
    /\ UNCHANGED <<students, max_attempts, past_pairings, ideal_sizes,
                   best_assignment, best_score, attempt, candidates>>
    /\ UNCHANGED Others

Next == Entry \/ Attempt \/ Return

Spec == Init /\ [][Next]_vars

(* ------------- initial_group_structure applied on its own ------------- *)
InitPlan ==
    /\ num_students \in 0..MaxPlanN
    /\ sizes = <<>>
    /\ pc = "plan_call"
    /\ students = <<>>
    /\ max_attempts = 0
    /\ past_pairings = <<>>
    /\ ideal_sizes = <<>>
    /\ best_assignment = None
    /\ best_score = INF
    /\ attempt = 0
    /\ candidates = <<>>
    /\ result = Infeasible
    /\ assignment = <<>>
    /\ name_mapping = <<>>
    /\ df = <<>>
    /\ pairings = <<>>

Plan ==
    /\ pc = "plan_call"
    /\ sizes' = initial_group_structure(num_students)
    /\ pc' = "plan_done"
    /\ UNCHANGED <<students, max_attempts, past_pairings, ideal_sizes,
                   best_assignment, best_score, attempt, candidates, result,
                   num_students, assignment, name_mapping, df, pairings>>

NextPlan == Plan

SpecPlan == InitPlan /\ [][NextPlan]_vars

(* -------------------------- assign_group_names ------------------------ *)
NameIndexUnshifted(i) == ((i + 1) % Len(GROUP_NAMES)) + 1

(* GROUP_NAMES[i % len(GROUP_NAMES)], i counted from 0 *)
NameIndex(i) == (i % Len(GROUP_NAMES)) + 1

RECURSIVE NamesFrom(_, _, _)
NamesFrom(asg, i, mapping) ==
    IF i >= Len(asg) THEN mapping
    ELSE LET group == asg[i + 1]
             group_name == GROUP_NAMES[NameIndex(i)]
         IN  NamesFrom(asg, i + 1,
                       [r \in Range(group) |-> group_name] @@ mapping)

assign_group_names(asg) == NamesFrom(asg, 0, <<>>)

(* the partitions handed to the namer: the roster 1..n, in roster order   *)
(* or reversed, cut into the planned sizes                                *)
NamerInputs ==
    {FormGroups(order, initial_group_structure(Len(order))).assignment :
        order \in UNION {{[i \in 1..n |-> i], [i \in 1..n |-> n + 1 - i]} :
                            n \in 0..MaxNamedStudents}}

InitNames ==
    /\ assignment \in NamerInputs
    /\ name_mapping = <<>>
    /\ pc = "names_call"
    /\ students = <<>>
    /\ max_attempts = 0
    /\ past_pairings = <<>>
    /\ ideal_sizes = <<>>
    /\ best_assignment = None
    /\ best_score = INF
    /\ attempt = 0
    /\ candidates = <<>>
    /\ result = Infeasible
    /\ num_students = 0
    /\ sizes = <<>>
    /\ df = <<>>
    /\ pairings = <<>>

Names ==
    /\ pc = "names_call"
    /\ name_mapping' = assign_group_names(assignment)
    /\ pc' = "names_done"
    /\ UNCHANGED <<students, max_attempts, past_pairings, ideal_sizes,
                   best_assignment, best_score, attempt, candidates, result,
                   num_students, sizes, assignment, df, pairings>>

NextNames == Names

SpecNames == InitNames /\ [][NextNames]_vars

(* ------------------------ compute_past_pairings ----------------------- *)
Roster == 1..NumRoster

Cells == {"NA", "x", "cedar", "cypress"}

(* df[col].dropna().unique() *)
NonNull(column) == Range(column) \ {"NA"}

(* one pass of the loop body over a column: every pair of students that   *)
(* carries the same non-null cell value is counted once                   *)
CountColumn(column, counts) ==
    IF NonNull(column) \subseteq {"x"} THEN counts
    ELSE [pair \in DOMAIN counts |->
            IF \E group \in NonNull(column) :
                   pair \subseteq {r \in Roster : column[r] = group}
            THEN counts[pair] + 1
            ELSE counts[pair]]

RECURSIVE PairingsFrom(_, _, _)
PairingsFrom(table, col, counts) ==
    IF col > Len(table) THEN counts
    ELSE PairingsFrom(table, col + 1, CountColumn(table[col], counts))

compute_past_pairings(table) ==
    PairingsFrom(table, 1, [pair \in PairsOf(Roster) |-> 0])

InitPairs ==
    /\ df \in [1..NumCols -> [Roster -> Cells]]
    /\ pairings = <<>>
    /\ pc = "pairs_call"
    /\ students = <<>>
    /\ max_attempts = 0
    /\ past_pairings = <<>>
    /\ ideal_sizes = <<>>
    /\ best_assignment = None
    /\ best_score = INF
    /\ attempt = 0
    /\ candidates = <<>>
    /\ result = Infeasible
    /\ num_students = 0
    /\ sizes = <<>>
    /\ assignment = <<>>
    /\ name_mapping = <<>>

Pairs ==
    /\ pc = "pairs_call"
    /\ pairings' = compute_past_pairings(df)
    /\ pc' = "pairs_done"
    /\ UNCHANGED <<students, max_attempts, past_pairings, ideal_sizes,
                   best_assignment, best_score, attempt, candidates, result,
                   num_students, sizes, assignment, name_mapping, df>>

NextPairs == Pairs

SpecPairs == InitPairs /\ [][NextPairs]_vars

(* ======================= properties of the search ====================== *)
Present == 1..Len(students)

Feasible(n) == n >= 3 /\ n # 5

Min(S) == CHOOSE m \in S : \A k \in S : m <= k

RECURSIVE SumOver(_, _)
SumOver(S, pp) ==
    IF S = {} THEN 0
    ELSE LET p == CHOOSE q \in S : TRUE
         IN  Get(pp, p) + SumOver(S \ {p}, pp)

(* the conflict score of a partition, from the sets of its groups *)
PartitionScore(part, pp) ==
    SumSeq([i \in 1..Len(part) |->
               SumOver({k \in DOMAIN pp : k \subseteq Range(part[i])}, pp)])

RECURSIVE MinTotal(_, _, _)
MinTotal(S, szs, pp) ==
    IF szs = <<>> THEN 0
    ELSE Min({SumOver(PairsOf(G), pp) + MinTotal(S \ G, Tail(szs), pp) :
                G \in {H \in SUBSET S : Cardinality(H) = Head(szs)}})

(* the least total score over all partitions of 1..n into the planned sizes *)
MinScoreTable ==
    [n \in 0..MaxN |->
        [w \in WeightChoices |->
            MinTotal(1..n, initial_group_structure(n), w)]]

AllZero(pp) == \A k \in DOMAIN pp : pp[k] = 0

CandidateScores ==
    [i \in 1..Len(candidates) |-> PartitionScore(candidates[i], past_pairings)]

SearchReturned ==
    pc = "done" /\ Feasible(Len(students)) /\ max_attempts >= 1

C3_InfeasibleIffOneTwoFive ==
    (pc = "done" /\ max_attempts >= 1) =>
        /\ (result = Infeasible) <=> (Len(students) \in {1, 2, 5})
        /\ Len(students) \notin {1, 2, 5} =>
              /\ result.assignment # None
              /\ result.score # None
              /\ result.score[1] \in 0..(INF - 1)

(* C4: a call with max_attempts <= 0 is rejected before the search: it     *)
(* draws no permutation and returns no result that carries a score, as a   *)
(* finished search would.                                                  *)
C4_NonPositiveBudgetRejected ==
    max_attempts <= 0 =>
        /\ attempt = 0
        /\ ~(pc = "done" /\ result.score # None)

(* C5: the returned score is the sum of the conflict scores of the groups  *)
(* of the returned partition, and so is never below the least total score  *)
(* over all partitions of the present set into the planned sizes.          *)
C5_ScoreOfReturnedPartition ==
    SearchReturned =>
        /\ result.assignment # None
        /\ result.score
              = Some(PartitionScore(result.assignment[1], past_pairings))
        /\ result.score[1] >= MinScoreTable[Len(students)][past_pairings]

C5_Witness ==
    /\ SearchReturned
    /\ Len(students) = 6
    /\ result.score = Some(3)
    /\ MinScoreTable[Len(students)][past_pairings] = 0

(* C6: when every pairwise weight is 0 and the count is feasible, any      *)
(* attempts >= 1 returns score 0 with the first candidate: exactly one     *)
(* permutation is drawn.                                                   *)
C6_ZeroWeightsFirstAttempt ==
    (SearchReturned /\ AllZero(past_pairings)) =>
        /\ result.score = Some(0)
        /\ attempt = 1
        /\ Len(candidates) = 1
        /\ result.assignment = Some(candidates[1])

C6_Witness ==
    /\ SearchReturned
    /\ past_pairings = ZeroHistory
    /\ Len(students) = 6
    /\ max_attempts = 2
    /\ Len(candidates) = 1
    /\ result.score = Some(0)

(* C7: after every attempt the best score is the least score of the        *)
(* candidates examined so far and the best partition is the earliest       *)
(* candidate with that score: only a strictly lower score replaces it.     *)
C7_BestIsEarliestMinimum ==
    Len(candidates) >= 1 =>
        LET sc == CandidateScores
            m == Min(Range(sc))
            first == Min({i \in 1..Len(candidates) : sc[i] = m})
        IN  /\ best_score = m
            /\ best_assignment = Some(candidates[first])

C7_Witness ==
    /\ Len(candidates) = 2
    /\ PartitionScore(candidates[1], past_pairings) = 1
    /\ PartitionScore(candidates[2], past_pairings) = 3
    /\ best_assignment = Some(candidates[1])
    /\ best_score = 1

(* C10: the loop ends after at most max_attempts permutations; no          *)
(* permutation is drawn once a candidate of score 0 is the best; without   *)
(* such a candidate exactly max_attempts permutations are drawn.           *)
C10_BoundedSearch ==
    LET sc == CandidateScores
    IN  /\ attempt = Len(candidates)
        /\ attempt <= (IF max_attempts >= 0 THEN max_attempts ELSE 0)
        /\ \A i \in 1..(Len(candidates) - 1) : sc[i] # 0
        /\ best_score = 0 => pc = "done"
        /\ (pc = "done" /\ Feasible(Len(students)) /\ max_attempts >= 0
               /\ \A i \in 1..Len(candidates) : sc[i] # 0)
              => attempt = max_attempts
        /\ pc = "done" \/ ENABLED Next

C10_Witness ==
    /\ pc = "done"
    /\ Len(students) = 6
    /\ max_attempts = 2
    /\ attempt = 2
    /\ best_score > 0
    /\ best_score < INF

(* ================== properties of the pure functions =================== *)
Count(s, v) == Cardinality({i \in 1..Len(s) : s[i] = v})

C8_NamesCycle ==
    pc = "names_done" =>
        /\ Len(GROUP_NAMES) = 11
        /\ DOMAIN name_mapping
              = UNION {Range(assignment[i]) : i \in 1..Len(assignment)}
        /\ \A i \in 1..Len(assignment) : \A r \in Range(assignment[i]) :
              name_mapping[r] = GROUP_NAMES[((i - 1) % 11) + 1]
        /\ Len(assignment) >= 12 =>
              name_mapping[assignment[1][1]] = name_mapping[assignment[12][1]]

C8_Witness ==
    /\ pc = "names_done"
    /\ Len(assignment) = 12
    /\ name_mapping[assignment[12][1]] = "cedar"

(* C9: the weight of a pair is the number of past iterations that placed   *)
(* both in the same group; sharing the absence marker 'x' is not being     *)
(* grouped together and adds nothing.                                      *)
C9_WeightCountsSharedGroups ==
    pc = "pairs_done" =>
        \A pair \in PairsOf(Roster) :
            pairings[pair]
              = Cardinality({c \in 1..NumCols :
                               \E g \in Cells \ {"NA", "x"} :
                                   \A r \in pair : df[c][r] = g})

====
